---------------------------- MODULE Spec2Model ----------------------------
(***************************************************************************)
(* gcal-mcp: the account resolver, the credential read path, the          *)
(* AES-GCM envelope and the MCP tool handlers, over the SQLite store.      *)
(*                                                                         *)
(* Text values (TEXT columns, JS strings) are sequences of ASCII code      *)
(* points; BLOB values and keys are sequences of small byte values.        *)
(***************************************************************************)
EXTENDS Integers, Sequences, FiniteSets, TLC

VARIABLES
    accounts,         \* rows of table accounts:        [id, email, display_name]
    credentials,      \* rows of table credentials:     [account_id, refresh_token, refresh_token_ct, refresh_token_iv, refresh_token_tag]
    encryption_meta,  \* rows of table encryption_meta: at most the row id = 1
    txn,              \* the write transaction open on the store, if any
    last              \* the last call made and how it ended

vars == <<accounts, credentials, encryption_meta, txn, last>>

-----------------------------------------------------------------------------
(* Bounds *)

\* Longest caller-supplied key / query, in characters.
MaxKeyLen == 3

-----------------------------------------------------------------------------
(* Values *)

\* SQL NULL, and JS undefined (an omitted argument).
NULL == <<-1>>
UNDEFINED == <<-2>>

\* The characters keys are drawn from:
\*   32 ' '   64 '@'   65 'A'   95 '_'   97 'a'   98 'b'   120 'x'
Alphabet == {32, 64, 65, 95, 97, 98, 120}

\* JS String.prototype.trim strips these from both ends.
WhiteSpace == {9, 10, 13, 32}

RECURSIVE SeqsUpTo(_, _)
SeqsUpTo(S, n) ==
    IF n = 0 THEN {<<>>}
    ELSE LET shorter == SeqsUpTo(S, n - 1)
         IN  shorter \cup {Append(s, c) : s \in {t \in shorter : Len(t) = n - 1}, c \in S}

Keys == SeqsUpTo(Alphabet, MaxKeyLen)

-----------------------------------------------------------------------------
(* String helpers *)

\* toLowerCase() / SQLite LOWER(): on ASCII both map 'A'..'Z' to 'a'..'z'.
LowerChar(c) == IF c >= 65 /\ c <= 90 THEN c + 32 ELSE c

toLowerCase(s) == [i \in 1..Len(s) |-> LowerChar(s[i])]

RECURSIVE trimStart(_)
trimStart(s) ==
    IF s # <<>> /\ Head(s) \in WhiteSpace THEN trimStart(Tail(s)) ELSE s

RECURSIVE trimEnd(_)
trimEnd(s) ==
    IF s # <<>> /\ s[Len(s)] \in WhiteSpace
    THEN trimEnd(SubSeq(s, 1, Len(s) - 1)) ELSE s

\* The key taken as it is.
trim_Untrimmed(key) == IF key = UNDEFINED THEN <<>> ELSE key

\* (key ?? '').trim()
trim(key) == IF key = UNDEFINED THEN <<>> ELSE trimEnd(trimStart(key))

\* Byte-wise order of two texts (SQLite's default BINARY collation).
RECURSIVE TextLess(_, _)
TextLess(s, t) ==
    IF t = <<>> THEN FALSE
    ELSE IF s = <<>> THEN TRUE
    ELSE IF Head(s) # Head(t) THEN Head(s) < Head(t)
    ELSE TextLess(Tail(s), Tail(t))

\* SQLite's LIKE without ESCAPE: '%' (37) matches any run of characters,
\* '_' (95) matches exactly one character, any other character matches
\* itself, ASCII letters regardless of case.
RECURSIVE Like(_, _)
Like(pat, s) ==
    IF pat = <<>> THEN s = <<>>
    ELSE IF Head(pat) = 37
         THEN \E k \in 0..Len(s) : Like(Tail(pat), SubSeq(s, k + 1, Len(s)))
    ELSE IF s = <<>> THEN FALSE
    ELSE IF Head(pat) = 95 THEN Like(Tail(pat), Tail(s))
    ELSE LowerChar(Head(pat)) = LowerChar(Head(s)) /\ Like(Tail(pat), Tail(s))

\* `%${q}%`
LikePattern(q) == <<37>> \o q \o <<37>>

\* COALESCE(display_name, '')
Coalesce(v) == IF v = NULL THEN <<>> ELSE v

-----------------------------------------------------------------------------
(* Table accounts *)

\* The accounts that can be linked. ids and emails are unique (PRIMARY KEY,
\* UNIQUE); display_name is nullable.
\*   "aa"  / "a@x"  / NULL
\*   "bb"  / "ab@x" / "a"
\*   "b"   / "A@x"  / "a_b"
\*   "a@x" / "x@x"  / "B"
AccountPool ==
    { [id |-> <<97, 97>>,      email |-> <<97, 64, 120>>,     display_name |-> NULL],
      [id |-> <<98, 98>>,      email |-> <<97, 98, 64, 120>>, display_name |-> <<97>>],
      [id |-> <<98>>,          email |-> <<65, 64, 120>>,     display_name |-> <<97, 95, 98>>],
      [id |-> <<97, 64, 120>>, email |-> <<120, 64, 120>>,    display_name |-> <<66>>] }

\* What a query returning no row gives (undefined).
NoRow == [id |-> UNDEFINED, email |-> UNDEFINED, display_name |-> UNDEFINED]

\* ORDER BY email: the rows as a sequence, ascending by email.
RECURSIVE OrderByEmail(_)
OrderByEmail(rows) ==
    IF rows = {} THEN <<>>
    ELSE LET first == CHOOSE r \in rows :
                          \A o \in rows \ {r} : TextLess(r.email, o.email)
         IN  <<first>> \o OrderByEmail(rows \ {first})

\* The account listing in descending order of email.
listAccounts_Descending(accts) ==
    LET rows == OrderByEmail(accts)
    IN  [i \in 1..Len(rows) |-> rows[Len(rows) + 1 - i]]

\* SELECT ... FROM accounts ORDER BY email
listAccounts(accts) == OrderByEmail(accts)

\* The exact query by id alone.
ExactRows_IdOnly(accts, key) == {r \in accts : r.id = key}

\* SELECT ... FROM accounts WHERE id=? OR email=?   (rows, in no stated order)
ExactRows(accts, key) == {r \in accts : r.id = key \/ r.email = key}

\* SELECT ... FROM accounts
\*  WHERE LOWER(email) LIKE ? OR LOWER(COALESCE(display_name,'')) LIKE ?
\*  ORDER BY email
LikeRows(accts, like) ==
    OrderByEmail({r \in accts :
        \/ Like(like, toLowerCase(r.email))
        \/ Like(like, toLowerCase(Coalesce(r.display_name)))})

\* candidates.map(c => c.email)
Emails(rows) == [i \in 1..Len(rows) |-> rows[i].email]

Resolved(kind, row, listed) == [kind |-> kind, account |-> row, listed |-> listed]

\* resolveAccount(db, key): the outcomes the call can have. `get` returns the
\* first row the scan meets, so with several exact rows any of them.
\*   kind "ok"           the account returned
\*   kind "no_accounts"  'No linked accounts. ...'
\*   kind "multiple"     'Multiple accounts linked. ...'      (no candidate named)
\*   kind "ambiguous"    'Multiple accounts match ...: opts'  (listed = opts)
\*   kind "not_found"    'Account not found for ...'
resolveAccount(accts, key) ==
    LET trimmed == trim(key)
    IN  IF trimmed = <<>>
        THEN LET rows == listAccounts(accts)
             IN  IF Len(rows) = 0 THEN {Resolved("no_accounts", NoRow, <<>>)}
                 ELSE IF Len(rows) = 1 THEN {Resolved("ok", rows[1], <<>>)}
                 ELSE {Resolved("multiple", NoRow, <<>>)}
        ELSE LET exact == ExactRows(accts, trimmed)
             IN  IF exact # {}
                 THEN {Resolved("ok", r, <<>>) : r \in exact}
                 ELSE LET candidates == LikeRows(accts, LikePattern(toLowerCase(trimmed)))
                      IN  IF Len(candidates) = 1
                          THEN {Resolved("ok", candidates[1], <<>>)}
                          ELSE IF Len(candidates) > 1
                          THEN {Resolved("ambiguous", NoRow, Emails(candidates))}
                          ELSE {Resolved("not_found", NoRow, <<>>)}

\* searchAccounts(db, query)
searchAccounts(accts, query) ==
    LET q == toLowerCase(trim(query))
    IN  IF q = <<>> THEN listAccounts(accts)
        ELSE LikeRows(accts, LikePattern(q))

-----------------------------------------------------------------------------
(* Calls and their records *)

\* No call in progress: the caller issues one call at a time and reads its
\* result before the next.
Idle == [op |-> "none"]

\* No transaction open: every statement is committed as it runs.
NoTx == [open |-> FALSE]

\* The caller has taken the result of the last call.
Return ==
    /\ last # Idle
    /\ last' = Idle
    /\ UNCHANGED <<accounts, credentials, encryption_meta, txn>>

\* A call of resolveAccount(db, key) with any key, or none.
ResolveAccount ==
    /\ last = Idle
    /\ \E key \in Keys \cup {UNDEFINED} :
         \E out \in resolveAccount(accounts, key) :
            last' = [op |-> "resolveAccount", key |-> key, trimmed |-> trim(key),
                     kind |-> out.kind, account |-> out.account, listed |-> out.listed]
    /\ UNCHANGED <<accounts, credentials, encryption_meta, txn>>

\* A call of searchAccounts(db, query) with any query, or none.
SearchAccounts ==
    /\ last = Idle
    /\ \E query \in Keys \cup {UNDEFINED} :
         last' = [op |-> "searchAccounts", key |-> query, trimmed |-> trim(query),
                  rows |-> searchAccounts(accounts, query)]
    /\ UNCHANGED <<accounts, credentials, encryption_meta, txn>>

-----------------------------------------------------------------------------
(* Claims about the resolver *)

Range(seq) == {seq[i] : i \in 1..Len(seq)}

\* needle occurs in hay as a contiguous run of characters.
IsSubstring(needle, hay) ==
    \E i \in 0..(Len(hay) - Len(needle)) :
        SubSeq(hay, i + 1, i + Len(needle)) = needle

\* The accounts for which the lower-cased key is a substring of the lower-cased
\* email or of the lower-cased display name (a missing one being '').
FuzzyMatches(accts, key) ==
    {r \in accts :
        \/ IsSubstring(toLowerCase(key), toLowerCase(r.email))
        \/ IsSubstring(toLowerCase(key), toLowerCase(Coalesce(r.display_name)))}

\* The key was omitted, or holds white space only.
BlankKey(key) == key = UNDEFINED \/ \A i \in 1..Len(key) : key[i] \in WhiteSpace

\* key with its leading and trailing white space dropped, stated without trim().
Stripped(key) ==
    IF BlankKey(key) THEN <<>>
    ELSE LET lo == CHOOSE i \in 1..Len(key) :
                       key[i] \notin WhiteSpace /\ \A j \in 1..(i - 1) : key[j] \in WhiteSpace
             hi == CHOOSE i \in 1..Len(key) :
                       key[i] \notin WhiteSpace /\ \A j \in (i + 1)..Len(key) : key[j] \in WhiteSpace
         IN  SubSeq(key, lo, hi)

ExactlyNamed(accts, key) == {r \in accts : r.id = key \/ r.email = key}

\* C1: a resolveAccount call whose trimmed key is non-empty and equals the id
\* or the email of a stored account returns a stored account whose id or email
\* is that key; it never ends in an error, however many accounts contain the
\* key as a substring.
C1_ExactWins ==
    (/\ last.op = "resolveAccount"
     /\ ~BlankKey(last.key)
     /\ ExactlyNamed(accounts, Stripped(last.key)) # {})
    => /\ last.kind = "ok"
       /\ last.account \in ExactlyNamed(accounts, Stripped(last.key))

\* An exact key that two other accounts contain as a substring resolved.
C1_Witness ==
    /\ last.op = "resolveAccount"
    /\ ~BlankKey(last.key)
    /\ ExactlyNamed(accounts, Stripped(last.key)) # {}
    /\ Cardinality(FuzzyMatches(accounts, Stripped(last.key))
                     \ ExactlyNamed(accounts, Stripped(last.key))) >= 2
    /\ last.kind = "ok"

\* C2: a resolveAccount call with an omitted, empty or blank key ends by the
\* number of stored accounts alone: none, the no-accounts error; one, that
\* account; two or more, the error that names no candidate.
C2_BlankKeyDefault ==
    (last.op = "resolveAccount" /\ BlankKey(last.key))
    => /\ accounts = {} => last.kind = "no_accounts"
       /\ Cardinality(accounts) = 1 => last.kind = "ok" /\ last.account \in accounts
       /\ Cardinality(accounts) >= 2 => last.kind = "multiple" /\ last.listed = <<>>

\* A key of white space resolved to the only account.
C2_Witness ==
    /\ last.op = "resolveAccount"
    /\ last.key # UNDEFINED /\ last.key # <<>> /\ BlankKey(last.key)
    /\ Cardinality(accounts) = 1
    /\ last.kind = "ok"

\* The emails of rows, ascending, as a sequence.
SortedEmails(rows) == Emails(OrderByEmail(rows))

\* C3: a resolveAccount call whose trimmed key is non-empty and names no
\* account exactly returns the account when one account fuzzy-matches, ends
\* not-found when none does, and ends ambiguous, listing exactly the
\* fuzzy-matching accounts' emails in ascending order, when several do.
C3_FuzzyOutcome ==
    (/\ last.op = "resolveAccount"
     /\ ~BlankKey(last.key)
     /\ ExactlyNamed(accounts, Stripped(last.key)) = {})
    => LET m == FuzzyMatches(accounts, Stripped(last.key))
       IN  /\ Cardinality(m) = 1 => last.kind = "ok" /\ last.account \in m
           /\ m = {} => last.kind = "not_found"
           /\ Cardinality(m) >= 2 =>
                 last.kind = "ambiguous" /\ last.listed = SortedEmails(m)

\* C4: for a non-empty trimmed key, the candidates of resolveAccount's and of
\* searchAccounts' fuzzy query are exactly the accounts that contain the
\* lower-cased key as a substring of the lower-cased email or display name.
C4_CandidatesAreSubstringMatches ==
    (last.op \in {"resolveAccount", "searchAccounts"} /\ ~BlankKey(last.key))
    => /\ Range(LikeRows(accounts, LikePattern(toLowerCase(trim(last.key)))))
            = FuzzyMatches(accounts, Stripped(last.key))
       /\ last.op = "searchAccounts" =>
            Range(last.rows) = FuzzyMatches(accounts, Stripped(last.key))

\* The key holds none of LIKE's wildcards.
NoWildcard(key) == key = UNDEFINED \/ \A i \in 1..Len(key) : key[i] \notin {37, 95}

\* Where the key holds no wildcard the outcome is as C3 states.
FuzzyOutcomeWithoutWildcards ==
    (last.op = "resolveAccount" /\ NoWildcard(last.key)) => C3_FuzzyOutcome

\* Where the key holds no wildcard the candidates are as C4 states.
CandidatesWithoutWildcards ==
    (last.op \in {"resolveAccount", "searchAccounts"} /\ NoWildcard(last.key))
    => C4_CandidatesAreSubstringMatches

\* The query sent is a text.
TextQuery == last.op = "gcal-resolve_account" /\ last.args.query.type = "string"

\* C15: an invocation of gcal-resolve_account whose query is the id or the
\* email of a stored account returns that account as its only match, with
\* exact true, ambiguous false and count 1, whatever other accounts contain
\* the query.
C15_ToolExactMatch ==
    (TextQuery /\ ExactlyNamed(accounts, last.args.query.value) # {})
    => /\ last.ok
       /\ last.exact /\ ~last.ambiguous /\ last.count = 1
       /\ Len(last.matches) = 1
       /\ \E r \in ExactlyNamed(accounts, last.args.query.value) :
             last.matches[1].id = r.id /\ last.matches[1].email = r.email

\* The same for a query that is the email of a stored account.
ToolExactMatchByEmail ==
    (TextQuery /\ \E r \in accounts : r.email = last.args.query.value)
    => /\ last.ok
       /\ last.exact /\ ~last.ambiguous /\ last.count = 1
       /\ \E r \in ExactlyNamed(accounts, last.args.query.value) :
             last.matches[1].id = r.id /\ last.matches[1].email = r.email

\* C16: an invocation of gcal-resolve_account with a text query or none
\* returns a result and throws nothing, also when no account or several
\* match; with no query, an empty one or one of white space the matches are
\* all stored accounts, each once, in ascending order of email, with exact
\* false and count their number.
C16_ToolNeverThrows ==
    (last.op = "gcal-resolve_account" /\ last.args.query.type \in {"undefined", "string"})
    => /\ last.ok
       /\ last.count = Len(last.matches)
       /\ (last.args.query.type = "undefined" \/ BlankKey(last.args.query.value)) =>
             /\ ~last.exact
             /\ Len(last.matches) = Cardinality(accounts)
             /\ \A r \in accounts : \E i \in 1..Len(last.matches) :
                   last.matches[i].id = r.id /\ last.matches[i].email = r.email
             /\ \A i \in 1..Len(last.matches) : \A j \in 1..Len(last.matches) :
                   i < j => TextLess(last.matches[i].email, last.matches[j].email)

\* A query of white space listed three accounts or more.
C16_Witness ==
    /\ TextQuery
    /\ last.args.query.value # <<>> /\ BlankKey(last.args.query.value)
    /\ last.ok /\ last.count >= 3

-----------------------------------------------------------------------------
(* AES-256-GCM *)

\* Bytes are 0..MaxByte; plaintexts are at most MaxPtLen bytes long; an
\* initialization vector is one of MaxIv + 1 values.
MaxByte == 2
MaxPtLen == 2
MaxIv == 1

Modulus == MaxByte + 1

\* randomBytes(12), as one of the values it can return.
Ivs == {<<n>> : n \in 0..MaxIv}

\* The keys: the data-encryption keys a store can hold.
Deks == {<<0, 1>>, <<1, 2>>}

Plaintexts == SeqsUpTo(0..MaxByte, MaxPtLen)

\* Associated data given to the pure encrypt / decrypt calls.
AadInputs == {UNDEFINED, <<>>, <<7>>, <<8>>}

\* The key stream of a key and an IV (counter mode), byte i.
KeyStream(key, iv, i) == (key[((i - 1) % Len(key)) + 1] + iv[1] + i) % Modulus

\* cipher.update(plaintext) ++ cipher.final()
GcmEncrypt(key, iv, plaintext) ==
    [i \in 1..Len(plaintext) |-> (plaintext[i] + KeyStream(key, iv, i)) % Modulus]

\* The ciphertext handed back as it is.
GcmDecrypt_NoKeyStream(key, iv, ct) == ct

\* decipher.update(ct)
GcmDecrypt(key, iv, ct) ==
    [i \in 1..Len(ct) |-> (ct[i] + Modulus - KeyStream(key, iv, i)) % Modulus]

\* `if (aad) setAAD(aad)`: an omitted aad authenticates what an empty one does.
AadBytes(aad) == IF aad = UNDEFINED THEN <<>> ELSE aad

\* A tag that does not depend on the key.
GcmTag_Unkeyed(key, iv, aad, ct) ==
    <<Len(iv)>> \o iv \o <<Len(aad)>> \o aad \o ct

\* The authentication tag: GHASH over (aad, ct) under (key, iv), taken as
\* collision-free, so written as an injective encoding of its four inputs.
GcmTag(key, iv, aad, ct) ==
    <<Len(key)>> \o key \o <<Len(iv)>> \o iv \o <<Len(aad)>> \o aad \o ct

\* encryptAesGcm's body once the IV is drawn.
Seal(key, iv, plaintext, aad) ==
    LET ct == GcmEncrypt(key, iv, plaintext)
    IN  [ct |-> ct, iv |-> iv, tag |-> GcmTag(key, iv, AadBytes(aad), ct)]

\* encryptAesGcm(key, plaintext, aad?): what it can return, one per IV drawn.
encryptAesGcm(key, plaintext, aad) == {Seal(key, iv, plaintext, aad) : iv \in Ivs}

Decrypted(pt) == [ok |-> TRUE, pt |-> pt, error |-> "none"]
DecryptFailed(error) == [ok |-> FALSE, pt |-> UNDEFINED, error |-> error]

\* decryptAesGcm with the associated data left out of the tag check.
decryptAesGcm_NoAad(key, iv, tag, ct, aad) ==
    IF iv = NULL \/ tag = NULL \/ ct = NULL THEN DecryptFailed("invalid_argument")
    ELSE IF tag # GcmTag(key, iv, <<>>, ct) THEN DecryptFailed("authentication")
    ELSE Decrypted(GcmDecrypt(key, iv, ct))

\* decryptAesGcm(key, iv, tag, ct, aad?): the plaintext, or the error thrown.
\* decipher.final() throws unless the tag set is the tag of (key, iv, aad, ct).
decryptAesGcm(key, iv, tag, ct, aad) ==
    IF iv = NULL \/ tag = NULL \/ ct = NULL THEN DecryptFailed("invalid_argument")
    ELSE IF tag # GcmTag(key, iv, AadBytes(aad), ct) THEN DecryptFailed("authentication")
    ELSE Decrypted(GcmDecrypt(key, iv, ct))

\* A call of encryptAesGcm.
EncryptAesGcm ==
    /\ last = Idle
    /\ \E key \in Deks, plaintext \in Plaintexts, aad \in AadInputs :
         \E box \in encryptAesGcm(key, plaintext, aad) :
            last' = [op |-> "encryptAesGcm", key |-> key, plaintext |-> plaintext,
                     aad |-> aad, box |-> box]
    /\ UNCHANGED <<accounts, credentials, encryption_meta, txn>>

\* A call of decryptAesGcm on what the last encryptAesGcm returned, with any
\* key and any associated data.
DecryptAesGcm ==
    /\ last.op = "encryptAesGcm"
    /\ \E key \in Deks, aad \in AadInputs :
         last' = [op |-> "decryptAesGcm", key |-> key, aad |-> aad,
                  sealed |-> [key |-> last.key, plaintext |-> last.plaintext, aad |-> last.aad],
                  box |-> last.box,
                  result |-> decryptAesGcm(key, last.box.iv, last.box.tag, last.box.ct, aad)]
    /\ UNCHANGED <<accounts, credentials, encryption_meta, txn>>

InitCrypto ==
    /\ accounts = {}
    /\ credentials = {}
    /\ encryption_meta = {}
    /\ txn = NoTx
    /\ last = Idle

NextCrypto == EncryptAesGcm \/ DecryptAesGcm \/ Return

SpecCrypto == InitCrypto /\ [][NextCrypto]_vars

\* C9: decryptAesGcm under the key and the associated data (given or omitted)
\* that encryptAesGcm was called with returns the plaintext encrypted.
C9_RoundTrip ==
    (/\ last.op = "decryptAesGcm"
     /\ last.key = last.sealed.key
     /\ last.aad = last.sealed.aad)
    => last.result.ok /\ last.result.pt = last.sealed.plaintext

\* A plaintext of two different bytes came back, once with associated data
\* given on both sides.
C9_Witness ==
    /\ last.op = "decryptAesGcm"
    /\ last.key = last.sealed.key
    /\ last.aad = last.sealed.aad
    /\ last.aad \notin {UNDEFINED, <<>>}
    /\ Len(last.sealed.plaintext) = 2
    /\ last.sealed.plaintext[1] # last.sealed.plaintext[2]
    /\ last.box.ct # last.sealed.plaintext
    /\ last.result.ok

\* The same with the associated data omitted on both sides.
RoundTripWithoutAad ==
    \/ last.op # "decryptAesGcm"
    \/ ~(last.key = last.sealed.key /\ last.aad = UNDEFINED /\ last.sealed.aad = UNDEFINED)
    \/ last.result.pt = last.sealed.plaintext

-----------------------------------------------------------------------------
(* The store: tables credentials and encryption_meta *)

\* The accounts the add command links: "aa" / "a@x" and "a@x" / "x@x", the id
\* of the second being the email of the first.
Linkable == {r \in AccountPool : r.email \in {<<97, 64, 120>>, <<120, 64, 120>>}}

\* The refresh tokens OAuth returns (never an empty one).
Secrets == {<<1>>, <<2, 1>>}

Passwords == {<<1>>, <<2>>}

\* randomBytes for the KDF salt, as the values it can return.
Salts == {<<0>>, <<1>>}

\* JSON of the default scrypt parameters.
DefaultKdfParamsJson == <<123, 125>>

\* The associated data without the account id in it.
Aad_Unbound(accountId) ==
    <<99, 114, 101, 100, 101, 110, 116, 105, 97, 108, 115, 46, 114, 101, 102,
      114, 101, 115, 104, 95, 116, 111, 107, 101, 110, 58, 58, 118, 49>>

\* `credentials.refresh_token:${accountId}:v1`
Aad(accountId) ==
    <<99, 114, 101, 100, 101, 110, 116, 105, 97, 108, 115, 46, 114, 101, 102,
      114, 101, 115, 104, 95, 116, 111, 107, 101, 110, 58>>
    \o accountId \o <<58, 118, 49>>

\* Math.max
Max(a, b) == IF a >= b THEN a ELSE b

\* The Node releases, by the error crypto.scrypt raises for parameters it
\* refuses: code ERR_CRYPTO_SCRYPT_INVALID_PARAMETER with no reason in the
\* message (before 15), code ERR_CRYPTO_INVALID_SCRYPT_PARAMS with OpenSSL's
\* reason in the message (15 and later).
Nodes == {"node14", "node18"}

ScryptError(node, reason) ==
    IF node = "node14"
    THEN [code |-> "ERR_CRYPTO_SCRYPT_INVALID_PARAMETER", message |-> "Invalid scrypt parameter"]
    ELSE [code |-> "ERR_CRYPTO_INVALID_SCRYPT_PARAMS",
          message |-> IF reason = "memory"
                      THEN "Invalid scrypt params: memory limit exceeded"
                      ELSE "Invalid scrypt params: invalid parameter"]

KdfOk(key) == [ok |-> TRUE, key |-> key, error |-> [code |-> "", message |-> ""]]
KdfFailed(error) == [ok |-> FALSE, key |-> UNDEFINED, error |-> error]

\* N is a power of two above 1 (the values that occur).
PowerOfTwo(n) == n \in {2, 4, 8, 16, 16384, 32768, 65536, 131072}

\* The memory scrypt needs, as OpenSSL counts it against maxmem:
\* 128*r*p for B, 128*r*(N + 2) for V and the scratch blocks.
MemoryNeeded(opts) == 128 * opts.r * (opts.N + opts.p + 2)

\* The key scrypt computes: a function of the password, the salt, N, r, p and
\* the key length, different for different inputs; maxmem has no part in it.
scryptKey(password, salt, dkLen, opts) ==
    password \o salt \o <<opts.N, opts.r, opts.p, dkLen>>

\* N is below 2^(16*r), the largest cost a block size admits (for the block
\* sizes that occur only r = 1 bounds N). OpenSSL refuses a larger N with the
\* reason "memory limit exceeded", whatever maxmem is.
NInRange(opts) == opts.r > 1 \/ opts.N < 65536

\* crypto.scrypt(password, salt, dkLen, { N, r, p, maxmem }, callback)
scrypt(password, salt, dkLen, opts, node) ==
    IF ~PowerOfTwo(opts.N) THEN KdfFailed(ScryptError(node, "invalid"))
    ELSE IF ~NInRange(opts) THEN KdfFailed(ScryptError(node, "memory"))
    ELSE IF MemoryNeeded(opts) > opts.maxmem THEN KdfFailed(ScryptError(node, "memory"))
    ELSE KdfOk(scryptKey(password, salt, dkLen, opts))

\* The estimate without the block size.
estimated_WithoutR(params) == 128 * params.N

\* const estimated = 128 * params.N * params.r
estimated(params) == 128 * params.N * params.r

\* const baseMax = 64 * 1024 * 1024
baseMax == 64 * 1024 * 1024

\* One attempt: what scrypt was called with, and how it ended.
Attempt(password, salt, params, maxmem, node) ==
    [password |-> password, salt |-> salt, dkLen |-> params.dkLen,
     N |-> params.N, r |-> params.r, p |-> params.p, maxmem |-> maxmem,
     result |-> scrypt(password, salt, params.dkLen,
                       [N |-> params.N, r |-> params.r, p |-> params.p, maxmem |-> maxmem],
                       node)]

\* tryOnce(maxmem)
tryOnce(password, salt, params, maxmem, node) ==
    Attempt(password, salt, params, maxmem, node)

\* The retry test on the error code alone.
Retryable_CodeOnly(e) == e.code = "ERR_CRYPTO_SCRYPT_INVALID_PARAMETER"

\* /memory limit exceeded/i.test(msg) || /ERR_CRYPTO_SCRYPT_INVALID_PARAMETER/i.test(code)
Retryable(e) ==
    \/ e.message = "Invalid scrypt params: memory limit exceeded"
    \/ e.code = "ERR_CRYPTO_SCRYPT_INVALID_PARAMETER"

\* deriveKek(password, salt, params): the attempts made, in order, and the key
\* returned or the error thrown.
deriveKek(password, salt, params, node) ==
    LET first == tryOnce(password, salt, params, Max(baseMax, estimated(params) * 2), node)
    IN  IF first.result.ok THEN [attempts |-> <<first>>, result |-> first.result]
        ELSE IF Retryable(first.result.error)
        THEN LET second == tryOnce(password, salt, params,
                                   Max(baseMax * 4, estimated(params) * 8), node)
             IN  [attempts |-> <<first, second>>, result |-> second.result]
        ELSE [attempts |-> <<first>>, result |-> first.result]

\* The parameters lock stores, and their JSON.
DefaultKdfParams == [N |-> 16384, r |-> 8, p |-> 1, dkLen |-> 32]

\* JSON.parse of the stored kdf_params_json.
parseKdfParams(json) == DefaultKdfParams

\* The KEK of a password under a stored salt and the stored parameters.
kek(password, salt, paramsJson) ==
    deriveKek(password, salt, parseKdfParams(paramsJson), "node18").result.key

\* INSERT INTO encryption_meta(id,is_locked,version,kdf) VALUES(1,0,1,'scrypt')
MetaRow(is_locked) ==
    [id |-> 1, is_locked |-> is_locked, version |-> 1, kdf |-> "scrypt",
     kdf_salt |-> NULL, kdf_params_json |-> NULL,
     dek_ct |-> NULL, dek_iv |-> NULL, dek_tag |-> NULL, password_hint |-> NULL]

\* The bootstrap row written locked.
FirstMetaRow_Locked == MetaRow(1)

\* The row migrate inserts when encryption_meta holds none.
FirstMetaRow == MetaRow(0)

\* SELECT * FROM encryption_meta WHERE id=1
Meta == CHOOSE m \in encryption_meta : m.id = 1

IsLocked == encryption_meta # {} /\ Meta.is_locked = 1

\* A credential row in its plaintext and in its encrypted form.
PlainRow(accountId, secret) ==
    [account_id |-> accountId, refresh_token |-> secret,
     refresh_token_ct |-> NULL, refresh_token_iv |-> NULL, refresh_token_tag |-> NULL]

EncryptedRow(accountId, box) ==
    [account_id |-> accountId, refresh_token |-> NULL,
     refresh_token_ct |-> box.ct, refresh_token_iv |-> box.iv, refresh_token_tag |-> box.tag]

\* unlock(password): the DEK unwrapped under the KEK of the stored salt, or
\* WrongPasswordError.
unlock(meta, password) ==
    decryptAesGcm(kek(password, meta.kdf_salt, meta.kdf_params_json),
                  meta.dek_iv, meta.dek_tag, meta.dek_ct, UNDEFINED)

\* currentKey(suppliedPassword?): no key when Unlocked; when Locked the DEK of
\* the supplied password, DatabaseLockedError without one.
currentKey(meta, suppliedPassword) ==
    IF meta.is_locked = 0 THEN [ok |-> TRUE, dek |-> UNDEFINED, error |-> "none"]
    ELSE IF suppliedPassword = UNDEFINED
         THEN [ok |-> FALSE, dek |-> UNDEFINED, error |-> "database_locked"]
    ELSE LET u == unlock(meta, suppliedPassword)
         IN  IF u.ok THEN [ok |-> TRUE, dek |-> u.pt, error |-> "none"]
             ELSE [ok |-> FALSE, dek |-> UNDEFINED, error |-> "wrong_password"]

\* storeSecret(accountId, secret, dek?): the rows it can write, plaintext
\* without a dek, encrypted under the dek with the account's associated data.
storeSecret(accountId, secret, dek) ==
    IF dek = UNDEFINED THEN {PlainRow(accountId, secret)}
    ELSE {EncryptedRow(accountId, box) : box \in encryptAesGcm(dek, secret, Aad(accountId))}

\* The three tables as one value: what a connection reads and writes.
Store == [accounts |-> accounts, credentials |-> credentials,
          encryption_meta |-> encryption_meta]

\* INSERT or UPDATE of one row, by primary key.
Statement(table, row) == [table |-> table, row |-> row]

\* run(db, sql, params): the store after one statement.
run(store, stmt) ==
    IF stmt.table = "encryption_meta"
    THEN [store EXCEPT !.encryption_meta =
             {m \in @ : m.id # stmt.row.id} \cup {stmt.row}]
    ELSE [store EXCEPT !.credentials =
             {c \in @ : c.account_id # stmt.row.account_id} \cup {stmt.row}]

\* The store after the statements of a sequence, in order.
RECURSIVE runAll(_, _)
runAll(store, stmts) ==
    IF stmts = <<>> THEN store ELSE runAll(run(store, Head(stmts)), Tail(stmts))

\* The enumerations of a finite set, each element once.
Orders(S) == {f \in [1..Cardinality(S) -> S] : \A x \in S : \E i \in DOMAIN f : f[i] = x}

\* migrate with INSERT OR REPLACE: the key-material row written on every call.
migrateStatements_Replace(store) == <<Statement("encryption_meta", FirstMetaRow)>>

\* migrate(db)'s function: CREATE TABLE IF NOT EXISTS leaves existing rows
\* alone; the key-material row is inserted when SELECT ... WHERE id=1 finds none.
migrateStatements(store) ==
    IF store.encryption_meta = {} THEN <<Statement("encryption_meta", FirstMetaRow)>>
    ELSE <<>>

\* lock's function: the key-material row set Locked with the salt, the default
\* parameters and the wrapped DEK, then every credential re-encrypted under
\* the DEK with its account's associated data, in the order given.
lockStatements(store, meta, salt, wrapped, dek, ivOf, order) ==
    <<Statement("encryption_meta",
                [meta EXCEPT !.is_locked = 1, !.kdf_salt = salt,
                             !.kdf_params_json = DefaultKdfParamsJson,
                             !.dek_ct = wrapped.ct, !.dek_iv = wrapped.iv,
                             !.dek_tag = wrapped.tag])>>
    \o [i \in 1..Len(order) |->
          Statement("credentials",
                    EncryptedRow(order[i].account_id,
                                 Seal(dek, ivOf[order[i]], order[i].refresh_token,
                                      Aad(order[i].account_id))))]

\* rotate's function: the key-material row given the new salt and the DEK
\* wrapped again; no credential statement.
rotateStatements(store, meta, salt, wrapped) ==
    <<Statement("encryption_meta",
                [meta EXCEPT !.kdf_salt = salt,
                             !.dek_ct = wrapped.ct, !.dek_iv = wrapped.iv,
                             !.dek_tag = wrapped.tag])>>

\* migrate(db): its transaction, committed.
Migrate ==
    /\ last = Idle
    /\ txn = NoTx
    /\ encryption_meta' = runAll(Store, migrateStatements(Store)).encryption_meta
    /\ last' = [op |-> "migrate"]
    /\ UNCHANGED <<accounts, credentials, txn>>

\* add: link an account (or link it again) and store its refresh token under
\* the current key. Nothing is written when the store is Locked and the
\* password is missing or wrong.
Link ==
    /\ last = Idle
    /\ txn = NoTx
    /\ encryption_meta # {}
    /\ \E acc \in Linkable, secret \in Secrets, pass \in Passwords \cup {UNDEFINED} :
         /\ LET key == currentKey(Meta, pass)
            IN  IF key.ok
                THEN \E row \in storeSecret(acc.id, secret, key.dek) :
                        /\ accounts' = accounts \cup {acc}
                        /\ credentials' =
                             {c \in credentials : c.account_id # acc.id} \cup {row}
                        /\ last' = [op |-> "add", account_id |-> acc.id, error |-> "none"]
                ELSE /\ UNCHANGED <<accounts, credentials>>
                     /\ last' = [op |-> "add", account_id |-> acc.id, error |-> key.error]
    /\ UNCHANGED <<encryption_meta, txn>>

\* remove <key>: the account of that id or email goes, and its credential row
\* with it (ON DELETE CASCADE).
Remove ==
    /\ last = Idle
    /\ txn = NoTx
    /\ encryption_meta # {}
    /\ \E acc \in accounts : \E key \in {acc.id, acc.email} :
         /\ accounts' = {r \in accounts : ~(r.id = key \/ r.email = key)}
         /\ credentials' = {c \in credentials : \E r \in accounts' : r.id = c.account_id}
         /\ last' = [op |-> "remove", key |-> key]
    /\ UNCHANGED <<encryption_meta, txn>>

\* passwd: lock(password). A fresh DEK is wrapped under the KEK of the
\* password and a fresh salt, the key-material row is set Locked, and every
\* credential is re-encrypted under the DEK: its transaction, committed.
\* AlreadyLockedError when Locked.
Lock ==
    /\ last = Idle
    /\ txn = NoTx
    /\ encryption_meta # {}
    /\ \E password \in Passwords :
         IF Meta.is_locked = 1
         THEN /\ last' = [op |-> "lock", password |-> password, error |-> "already_locked"]
              /\ UNCHANGED <<credentials, encryption_meta>>
         ELSE \E dek \in Deks, salt \in Salts, ivOf \in [credentials -> Ivs] :
                \E wrapped \in encryptAesGcm(kek(password, salt, DefaultKdfParamsJson),
                                             dek, UNDEFINED) :
                  LET order == CHOOSE o \in Orders(credentials) : TRUE
                      after == runAll(Store, lockStatements(Store, Meta, salt, wrapped,
                                                            dek, ivOf, order))
                  IN  /\ encryption_meta' = after.encryption_meta
                      /\ credentials' = after.credentials
                      /\ last' = [op |-> "lock", password |-> password, error |-> "none"]
    /\ UNCHANGED <<accounts, txn>>

\* passwd --rotate: rotate(oldPassword, newPassword). The DEK unwrapped with
\* the old password is wrapped again under the KEK of the new password and a
\* fresh salt; the credentials are left alone: its transaction, committed.
\* WrongPasswordError leaves the row as it was.
Rotate ==
    /\ last = Idle
    /\ txn = NoTx
    /\ IsLocked
    /\ \E oldPassword \in Passwords, newPassword \in Passwords :
         LET u == unlock(Meta, oldPassword)
         IN  IF ~u.ok
             THEN /\ last' = [op |-> "rotate", oldPassword |-> oldPassword,
                              newPassword |-> newPassword, error |-> "wrong_password"]
                  /\ UNCHANGED encryption_meta
             ELSE \E salt \in Salts :
                    \E wrapped \in encryptAesGcm(kek(newPassword, salt, DefaultKdfParamsJson),
                                                 u.pt, UNDEFINED) :
                      /\ encryption_meta' =
                           runAll(Store, rotateStatements(Store, Meta, salt, wrapped)).encryption_meta
                      /\ last' = [op |-> "rotate", oldPassword |-> oldPassword,
                                  newPassword |-> newPassword, error |-> "none"]
    /\ UNCHANGED <<accounts, credentials, txn>>

-----------------------------------------------------------------------------
(* The calendar client and the calendar functions *)

\* JS truthiness of a TEXT column: neither NULL nor ''.
Truthy(text) == text # NULL /\ text # <<>>

\* How a call ended, the steps it reached in order, and the refresh token it
\* obtained (UNDEFINED when none).
Ended(outcome, steps, refreshToken, aad) ==
    [outcome |-> outcome, steps |-> steps, refresh_token |-> refreshToken, aad |-> aad]

\* The credential query restricted to rows that hold a plaintext token.
CredentialRows_PlaintextOnly(creds, accountId) ==
    {c \in creds : c.account_id = accountId /\ c.refresh_token # NULL}

\* SELECT refresh_token, refresh_token_ct, refresh_token_iv, refresh_token_tag
\*   FROM credentials WHERE account_id=?
CredentialRows(creds, accountId) == {c \in creds : c.account_id = accountId}

\* The refresh token of a credential row, with no check that a DEK was given.
refreshToken_NoDekCheck(cred, cfg, accountId) ==
    IF Truthy(cred.refresh_token)
    THEN Ended("client", <<"credential_read">>, cred.refresh_token, UNDEFINED)
    ELSE LET aad == Aad(accountId)
             pt == decryptAesGcm(cfg.dek, cred.refresh_token_iv,
                                 cred.refresh_token_tag, cred.refresh_token_ct, aad)
         IN  IF pt.ok
             THEN Ended("client", <<"credential_read", "decrypt">>, pt.pt, aad)
             ELSE Ended(pt.error, <<"credential_read", "decrypt">>, UNDEFINED, aad)

\* The refresh token of a credential row: the plaintext column when it is
\* truthy, else the encrypted columns decrypted under cfg.dek.
refreshToken(cred, cfg, accountId) ==
    IF Truthy(cred.refresh_token)
    THEN Ended("client", <<"credential_read">>, cred.refresh_token, UNDEFINED)
    ELSE IF cfg.dek = UNDEFINED
    THEN Ended("database_locked", <<"credential_read">>, UNDEFINED, UNDEFINED)
    ELSE LET aad == Aad(accountId)
             pt == decryptAesGcm(cfg.dek, cred.refresh_token_iv,
                                 cred.refresh_token_tag, cred.refresh_token_ct, aad)
         IN  IF pt.ok
             THEN Ended("client", <<"credential_read", "decrypt">>, pt.pt, aad)
             ELSE Ended(pt.error, <<"credential_read", "decrypt">>, UNDEFINED, aad)

\* getCalendarClient(cfg, accountId)
\*   outcome "client"                 the OAuth client, holding refresh_token
\*   outcome "credentials_not_found"  'Account credentials not found'
\*   outcome "database_locked"        'Database is locked and password has not been provided'
\*   outcome "authentication"         decryptAesGcm threw
getCalendarClient(creds, cfg, accountId) ==
    LET rows == CredentialRows(creds, accountId)
    IN  IF rows = {}
        THEN Ended("credentials_not_found", <<"credential_read">>, UNDEFINED, UNDEFINED)
        ELSE refreshToken(CHOOSE c \in rows : TRUE, cfg, accountId)

ReadFunctions == {"listEvents", "getEvent"}
WriteFunctions == {"createEvent", "updateEvent", "deleteEvent"}

\* What the remote calendar API can answer.
ApiAnswers == {"ok", "api_error"}

\* listEvents, getEvent: the client, then the request.
readEvents(creds, cfg, accountId) ==
    LET c == getCalendarClient(creds, cfg, accountId)
    IN  IF c.outcome # "client" THEN {c}
        ELSE {Ended(answer, c.steps \o <<"calendar_request">>, c.refresh_token, c.aad)
                : answer \in ApiAnswers}

\* The write functions without the read-only check.
writeEvents_Unchecked(creds, cfg, accountId) == readEvents(creds, cfg, accountId)

\* createEvent, updateEvent, deleteEvent: 'Server is in read-only mode' when
\* cfg.readOnly, before the client is built.
writeEvents(creds, cfg, accountId) ==
    IF cfg.readOnly THEN {Ended("read_only", <<>>, UNDEFINED, UNDEFINED)}
    ELSE readEvents(creds, cfg, accountId)

calendarFunction(fn, creds, cfg, accountId) ==
    IF fn \in WriteFunctions THEN writeEvents(creds, cfg, accountId)
    ELSE readEvents(creds, cfg, accountId)

-----------------------------------------------------------------------------
(* The MCP tools *)

\* JSON argument values: a missing one, a string, a number (num / den), an object.
Undef == [type |-> "undefined", value |-> <<>>]
Str(s) == [type |-> "string", value |-> s]
Num(n, d) == [type |-> "number", value |-> <<n, d>>]
Obj == [type |-> "object", value |-> <<>>]

\* z.string()  and  z.string().optional()
IsString(v) == v.type = "string"
IsOptionalString(v) == v.type \in {"undefined", "string"}

\* maxResults as any number.
IsOptionalMaxResults_AnyNumber(v) == v.type \in {"undefined", "number"}

\* z.number().int().min(1).max(250).optional()
IsOptionalMaxResults(v) ==
    \/ v.type = "undefined"
    \/ v.type = "number" /\ v.value[2] = 1 /\ v.value[1] >= 1 /\ v.value[1] <= 250

\* z.object({...}) with optional members, z.record(z.any())
IsObject(v) == v.type = "object"

Tools == {"gcal-search_events", "gcal-get_event", "gcal-create_event",
          "gcal-update_event", "gcal-delete_event"}

\* The calendar function each tool's handler calls.
FunctionOf(tool) ==
    CASE tool = "gcal-search_events" -> "listEvents"
      [] tool = "gcal-get_event"     -> "getEvent"
      [] tool = "gcal-create_event"  -> "createEvent"
      [] tool = "gcal-update_event"  -> "updateEvent"
      [] tool = "gcal-delete_event"  -> "deleteEvent"

\* searchEventsSchema, getEventSchema, createEventSchema, updateEventSchema,
\* deleteEventSchema: whether .parse(args) returns.
Parses(tool, args) ==
    /\ IsOptionalString(args.account)
    /\ CASE tool = "gcal-search_events" -> IsOptionalMaxResults(args.maxResults)
         [] tool = "gcal-get_event"     -> IsString(args.eventId)
         [] tool = "gcal-create_event"  ->
                IsString(args.summary) /\ IsObject(args.start) /\ IsObject(args.end)
         [] tool = "gcal-update_event"  -> IsString(args.eventId) /\ IsObject(args.patch)
         [] tool = "gcal-delete_event"  -> IsString(args.eventId)

\* input.account, as resolveAccount's key.
AccountKey(args) == IF args.account.type = "string" THEN args.account.value ELSE UNDEFINED

\* How a handler ended, and for which account (UNDEFINED when none was resolved).
ToolEnded(accountId, e) ==
    [account_id |-> accountId, outcome |-> e.outcome, steps |-> e.steps,
     refresh_token |-> e.refresh_token, aad |-> e.aad]

\* A tool's handler: parse, resolve the account, call the calendar function.
\* The ways it can end, each with the steps reached.
handler(tool, accts, creds, cfg, args) ==
    IF ~Parses(tool, args)
    THEN {ToolEnded(UNDEFINED, Ended("invalid_arguments", <<"parse">>, UNDEFINED, UNDEFINED))}
    ELSE UNION {
           IF acc.kind # "ok"
           THEN {ToolEnded(UNDEFINED,
                           Ended(acc.kind, <<"parse", "resolve">>, UNDEFINED, UNDEFINED))}
           ELSE {ToolEnded(acc.account.id,
                           Ended(e.outcome, <<"parse", "resolve">> \o e.steps,
                                 e.refresh_token, e.aad))
                   : e \in calendarFunction(FunctionOf(tool), creds, cfg, acc.account.id)}
           : acc \in resolveAccount(accts, AccountKey(args)) }

\* The arguments callers send.
\*   account:    missing, a number, "x", "a@x", " "
AccountArgs == {Undef, Num(7, 1), Str(<<120>>), Str(<<97, 64, 120>>), Str(<<32>>)}
EventIdArgs == {Undef, Num(1, 1), Str(<<101>>)}
MaxResultsArgs ==
    {Undef, Num(0, 1), Num(1, 1), Num(250, 1), Num(251, 1), Num(3, 2), Str(<<53>>)}

ArgsOf(account, eventId, maxResults, summary, start, end, patch) ==
    [account |-> account, eventId |-> eventId, maxResults |-> maxResults,
     summary |-> summary, start |-> start, end |-> end, patch |-> patch]

\* Every account argument with the other arguments well-formed, and every
\* ill-formed variant of the other arguments with the account omitted.
ToolArgs(tool) ==
    CASE tool = "gcal-search_events" ->
           {ArgsOf(a, Undef, Undef, Undef, Undef, Undef, Undef) : a \in AccountArgs}
           \cup {ArgsOf(Undef, Undef, m, Undef, Undef, Undef, Undef) : m \in MaxResultsArgs}
      [] tool \in {"gcal-get_event", "gcal-delete_event"} ->
           {ArgsOf(a, Str(<<101>>), Undef, Undef, Undef, Undef, Undef) : a \in AccountArgs}
           \cup {ArgsOf(Undef, e, Undef, Undef, Undef, Undef, Undef) : e \in EventIdArgs}
      [] tool = "gcal-create_event" ->
           {ArgsOf(a, Undef, Undef, Str(<<101>>), Obj, Obj, Undef) : a \in AccountArgs}
           \cup {ArgsOf(Undef, Undef, Undef, f[1], f[2], f[3], Undef)
                   : f \in {<<Undef, Obj, Obj>>, <<Str(<<101>>), Undef, Obj>>,
                            <<Str(<<101>>), Obj, Str(<<101>>)>>}}
      [] tool = "gcal-update_event" ->
           {ArgsOf(a, Str(<<101>>), Undef, Undef, Undef, Undef, Obj) : a \in AccountArgs}
           \cup {ArgsOf(Undef, f[1], Undef, Undef, Undef, Undef, f[2])
                   : f \in {<<Undef, Obj>>, <<Str(<<101>>), Undef>>}}

\* buildTools(db, dek, readOnly): the configurations a server is started with.
Configs == [dek : Deks \cup {UNDEFINED}, readOnly : BOOLEAN]

\* A call of getCalendarClient(cfg, accountId) for any account id.
GetCalendarClient ==
    /\ last = Idle
    /\ encryption_meta # {}
    /\ \E cfg \in Configs, acc \in AccountPool :
         LET e == getCalendarClient(credentials, cfg, acc.id)
         IN  last' = [op |-> "getCalendarClient", cfg |-> cfg, account_id |-> acc.id,
                      outcome |-> e.outcome, steps |-> e.steps,
                      refresh_token |-> e.refresh_token, aad |-> e.aad]
    /\ UNCHANGED <<accounts, credentials, encryption_meta, txn>>

\* An invocation of one of the calendar tools of a server.
InvokeTool ==
    /\ last = Idle
    /\ encryption_meta # {}
    /\ \E cfg \in Configs, tool \in Tools :
         \E args \in ToolArgs(tool) :
           \E e \in handler(tool, accounts, credentials, cfg, args) :
              last' = [op |-> "tool", tool |-> tool, cfg |-> cfg, args |-> args,
                       account_id |-> e.account_id, outcome |-> e.outcome, steps |-> e.steps,
                       refresh_token |-> e.refresh_token, aad |-> e.aad]
    /\ UNCHANGED <<accounts, credentials, encryption_meta, txn>>

-----------------------------------------------------------------------------
(* The tool gcal-resolve_account *)

\* A row as the tools return it: { id, email, displayName }.
toMatch(r) == [id |-> r.id, email |-> r.email, displayName |-> r.display_name]

\* rows.find(r => r.email === q || r.id === q): the first such row, if any.
find(rows, q) ==
    LET hits == {i \in 1..Len(rows) : rows[i].email = q \/ rows[i].id = q}
    IN  IF hits = {} THEN <<>>
        ELSE <<rows[CHOOSE i \in hits : \A j \in hits : i <= j]>>

\* The result with ambiguous set from one match on.
ResolveResult_AmbiguousFromOne(q, rows, exact) ==
    [ok |-> TRUE, error |-> "none", query |-> q,
     matches |-> [i \in 1..Len(rows) |-> [id |-> rows[i].id, email |-> rows[i].email,
                                          displayName |-> rows[i].display_name]],
     exact |-> exact, ambiguous |-> (~exact /\ Len(rows) > 0), count |-> Len(rows)]

\* What the handler returns, or the error it throws.
ResolveResult(q, rows, exact) ==
    [ok |-> TRUE, error |-> "none", query |-> q,
     matches |-> [i \in 1..Len(rows) |-> toMatch(rows[i])],
     exact |-> exact, ambiguous |-> (~exact /\ Len(rows) > 1), count |-> Len(rows)]

ResolveThrew(error) ==
    [ok |-> FALSE, error |-> error, query |-> UNDEFINED, matches |-> <<>>,
     exact |-> FALSE, ambiguous |-> FALSE, count |-> 0]

\* The handler of gcal-resolve_account: the query is parsed and trimmed; a
\* non-empty one is searched and the first row whose email or id is the query
\* is the exact match; otherwise the rows of the search are the matches.
resolveAccountHandler(accts, args) ==
    IF ~IsOptionalString(args.query) THEN ResolveThrew("invalid_arguments")
    ELSE LET q == trim(IF args.query.type = "string" THEN args.query.value ELSE UNDEFINED)
             exact == IF q # <<>> THEN find(searchAccounts(accts, q), q) ELSE <<>>
         IN  IF Len(exact) = 1 THEN ResolveResult(q, exact, TRUE)
             ELSE ResolveResult(q, searchAccounts(accts, q), FALSE)

\* The queries callers send: none, a number, any text up to MaxKeyLen.
QueryArgs == {Undef, Num(7, 1)} \cup {Str(k) : k \in Keys}

\* An invocation of gcal-resolve_account.
InvokeResolveAccount ==
    /\ last = Idle
    /\ \E query \in QueryArgs :
         LET r == resolveAccountHandler(accounts, [query |-> query])
         IN  last' = [op |-> "gcal-resolve_account", args |-> [query |-> query],
                      ok |-> r.ok, error |-> r.error, query |-> r.query,
                      matches |-> r.matches, exact |-> r.exact,
                      ambiguous |-> r.ambiguous, count |-> r.count]
    /\ UNCHANGED <<accounts, credentials, encryption_meta, txn>>

-----------------------------------------------------------------------------
(* The resolver over every account directory *)

InitResolve ==
    /\ accounts \in SUBSET AccountPool
    /\ credentials = {}
    /\ encryption_meta = {}
    /\ txn = NoTx
    /\ last = Idle

NextResolve == ResolveAccount \/ SearchAccounts \/ InvokeResolveAccount \/ Return

SpecResolve == InitResolve /\ [][NextResolve]_vars

-----------------------------------------------------------------------------
(* The program: a store opened empty, bootstrapped, operated by the CLI and
   read by servers *)

Init ==
    /\ accounts = {}
    /\ credentials = {}
    /\ encryption_meta = {}
    /\ txn = NoTx
    /\ last = Idle

Next ==
    \/ Migrate
    \/ Link
    \/ Remove
    \/ Lock
    \/ Rotate
    \/ GetCalendarClient
    \/ InvokeTool
    \/ Return

Spec == Init /\ [][Next]_vars

-----------------------------------------------------------------------------
(* Claims about the store and the credential read *)

PlaintextForm(c) ==
    /\ c.refresh_token # NULL
    /\ c.refresh_token_ct = NULL /\ c.refresh_token_iv = NULL /\ c.refresh_token_tag = NULL

EncryptedForm(c) ==
    /\ c.refresh_token = NULL
    /\ c.refresh_token_ct # NULL /\ c.refresh_token_iv # NULL /\ c.refresh_token_tag # NULL

BothForms(c) ==
    /\ c.refresh_token # NULL
    /\ c.refresh_token_ct # NULL \/ c.refresh_token_iv # NULL \/ c.refresh_token_tag # NULL

WrappedDekStored(m) == m.dek_ct # NULL /\ m.dek_iv # NULL /\ m.dek_tag # NULL

NoWrappedDek(m) == m.dek_ct = NULL /\ m.dek_iv = NULL /\ m.dek_tag = NULL

\* The last call was a credential read, by getCalendarClient or inside a tool.
ReadCredential ==
    /\ last.op \in {"getCalendarClient", "tool"}
    /\ "credential_read" \in Range(last.steps)

\* The credential rows of the account the last call read.
RowsRead == {c \in credentials : c.account_id = last.account_id}

\* C5: while the key-material row is Unlocked no wrapped DEK is stored and
\* every credential is in plaintext form only; while it is Locked a wrapped
\* DEK is stored and every credential is in encrypted form only; no credential
\* has both forms; and no credential read returns a stored plaintext while
\* the store is Locked.
C5_LockStateInvariant ==
    /\ \A m \in encryption_meta :
          /\ m.is_locked = 0 =>
                NoWrappedDek(m) /\ \A c \in credentials : PlaintextForm(c)
          /\ m.is_locked = 1 =>
                WrappedDekStored(m) /\ \A c \in credentials : EncryptedForm(c)
    /\ \A c \in credentials : ~BothForms(c)
    /\ (IsLocked /\ ReadCredential /\ last.refresh_token # UNDEFINED)
          => "decrypt" \in Range(last.steps)

\* A second account was linked, under the DEK, into a Locked store.
C5_Witness ==
    /\ IsLocked
    /\ Cardinality(credentials) >= 2
    /\ last.op = "add" /\ last.error = "none"

\* "credentials.refresh_token:" ++ id ++ ":v1"
BoundAad(id) ==
    <<99, 114, 101, 100, 101, 110, 116, 105, 97, 108, 115, 46, 114, 101, 102,
      114, 101, 115, 104, 95, 116, 111, 107, 101, 110, 58>> \o id \o <<58, 118, 49>>

\* C6: a credential read of a row in encrypted form ends database-locked when
\* the server holds no DEK; with a DEK it decrypts with the associated data
\* of that account id and ends in the authentication error when the tag is
\* not the one of (DEK, iv, associated data, ciphertext). A read that ends in
\* either error yields no secret and no calendar request follows it.
C6_EncryptedRead ==
    (ReadCredential /\ \E c \in RowsRead : EncryptedForm(c))
    => LET c == CHOOSE r \in RowsRead : TRUE
       IN  /\ last.cfg.dek = UNDEFINED => last.outcome = "database_locked"
           /\ last.cfg.dek # UNDEFINED =>
                /\ last.aad = BoundAad(last.account_id)
                /\ "decrypt" \in Range(last.steps)
                /\ c.refresh_token_tag #
                      GcmTag(last.cfg.dek, c.refresh_token_iv,
                             BoundAad(last.account_id), c.refresh_token_ct)
                   => last.outcome = "authentication"
           /\ last.outcome \in {"database_locked", "authentication"} =>
                /\ last.refresh_token = UNDEFINED
                /\ "calendar_request" \notin Range(last.steps)

\* A tool of a server holding another DEK read an encrypted credential.
C6_Witness ==
    /\ last.op = "tool"
    /\ \E c \in RowsRead : EncryptedForm(c)
    /\ last.cfg.dek # UNDEFINED
    /\ last.outcome = "authentication"

\* C7: a credential read ends credentials-not-found exactly when the store
\* holds no credential row for the account id, with or without a DEK.
C7_NotFoundIffNoRow ==
    ReadCredential => (last.outcome = "credentials_not_found" <=> RowsRead = {})

\* An id without a row was read by a server holding a DEK, in a store that
\* holds rows of other accounts.
C7_Witness ==
    /\ last.op = "getCalendarClient"
    /\ last.cfg.dek # UNDEFINED
    /\ credentials # {} /\ RowsRead = {}
    /\ last.outcome = "credentials_not_found"

\* The store with credential row c moved to account id b.
Substituted(c, b) ==
    {r \in credentials : r.account_id # b} \cup {[c EXCEPT !.account_id = b]}

PoolIds == {r.id : r \in AccountPool}

\* C8: the associated data of two different account ids differ, and the
\* encrypted token of one account put in another account's row is never
\* decrypted by getCalendarClient for that account, whatever DEK the server
\* holds: the read ends in the authentication error.
C8_CrossAccountIsolation ==
    /\ \A a \in PoolIds, b \in PoolIds : a # b => Aad(a) # Aad(b)
    /\ \A c \in credentials : \A b \in PoolIds \ {c.account_id} : \A dek \in Deks :
          EncryptedForm(c) =>
             LET e == getCalendarClient(Substituted(c, b),
                                        [dek |-> dek, readOnly |-> FALSE], b)
             IN  e.outcome = "authentication" /\ e.refresh_token = UNDEFINED

\* Two accounts hold encrypted tokens, and the DEK that decrypts the one in
\* its own row fails on it in the other's row.
C8_Witness ==
    \E c \in credentials : \E b \in accounts : \E dek \in Deks :
        /\ b.id # c.account_id
        /\ EncryptedForm(c)
        /\ getCalendarClient(credentials, [dek |-> dek, readOnly |-> FALSE],
                             c.account_id).outcome = "client"
        /\ getCalendarClient(Substituted(c, b.id), [dek |-> dek, readOnly |-> FALSE],
                             b.id).outcome = "authentication"

WriteTools == {"gcal-create_event", "gcal-update_event", "gcal-delete_event"}

\* C10: on a read-only server no invocation of a write tool reads a credential
\* or sends a calendar request, and each ends in an error; the invocations of
\* gcal-search_events and gcal-get_event end as they do on a server that is
\* not read-only.
C10_ReadOnlyMode ==
    last.op = "tool" =>
       /\ (last.cfg.readOnly /\ last.tool \in WriteTools) =>
             /\ last.outcome # "ok"
             /\ "credential_read" \notin Range(last.steps)
             /\ "calendar_request" \notin Range(last.steps)
             /\ last.refresh_token = UNDEFINED
       /\ last.tool \notin WriteTools =>
             handler(last.tool, accounts, credentials,
                     [last.cfg EXCEPT !.readOnly = TRUE], last.args)
               = handler(last.tool, accounts, credentials,
                         [last.cfg EXCEPT !.readOnly = FALSE], last.args)

\* A well-formed gcal-create_event for a resolved account with a readable
\* credential was refused by a read-only server.
C10_Witness ==
    /\ last.op = "tool"
    /\ last.tool = "gcal-create_event"
    /\ last.cfg.readOnly
    /\ last.account_id # UNDEFINED
    /\ getCalendarClient(credentials, last.cfg, last.account_id).outcome = "client"
    /\ last.outcome = "read_only"

\* The arguments have the shape the tool declares: account a text or
\* missing; eventId, summary texts; start, end, patch objects; maxResults
\* missing or a whole number from 1 to 250.
ShapeValid(tool, args) ==
    /\ args.account.type \in {"undefined", "string"}
    /\ tool = "gcal-search_events" =>
          \/ args.maxResults.type = "undefined"
          \/ /\ args.maxResults.type = "number"
             /\ args.maxResults.value[2] = 1
             /\ args.maxResults.value[1] \in 1..250
    /\ tool \in {"gcal-get_event", "gcal-update_event", "gcal-delete_event"} =>
          args.eventId.type = "string"
    /\ tool = "gcal-create_event" =>
          /\ args.summary.type = "string"
          /\ args.start.type = "object" /\ args.end.type = "object"
    /\ tool = "gcal-update_event" => args.patch.type = "object"

\* C17: a tool invocation whose arguments do not have the declared shape ends
\* in the invalid-arguments error having done nothing but parse: no account
\* was resolved, no credential read, nothing decrypted and no calendar
\* request sent.
C17_ValidationFirst ==
    (last.op = "tool" /\ ~ShapeValid(last.tool, last.args))
    => /\ last.outcome = "invalid_arguments"
       /\ last.steps = <<"parse">>
       /\ last.account_id = UNDEFINED
       /\ last.refresh_token = UNDEFINED

\* gcal-search_events with maxResults 251 was refused on a server whose only
\* account has a credential the server can read.
C17_Witness ==
    /\ last.op = "tool"
    /\ last.tool = "gcal-search_events"
    /\ last.args.maxResults = Num(251, 1)
    /\ last.outcome = "invalid_arguments"
    /\ Cardinality(accounts) = 1
    /\ \A r \in accounts :
          getCalendarClient(credentials, last.cfg, r.id).outcome = "client"

-----------------------------------------------------------------------------
(* tx(db, fn), statement by statement *)

\* A function run under tx: the statements it issues, and the error it ends
\* with after them ("none" when it resolves).
Fn(name, args, statements, rejects) ==
    [name |-> name, args |-> args, statements |-> statements, rejects |-> rejects]

\* migrate's function.
migrateFns == {Fn("migrate", <<>>, migrateStatements(Store), "none")}

\* lock(password)'s functions, one for each DEK, salt and IV drawn and each
\* order the credentials are met in; AlreadyLockedError when Locked.
lockFns ==
    IF encryption_meta = {} THEN {}
    ELSE IF Meta.is_locked = 1
    THEN {Fn("lock", [password |-> password], <<>>, "already_locked")
            : password \in Passwords}
    ELSE UNION {
           {Fn("lock", [password |-> password],
               lockStatements(Store, Meta, salt, wrapped, dek, ivOf, order), "none")
              : wrapped \in encryptAesGcm(kek(password, salt, DefaultKdfParamsJson),
                                          dek, UNDEFINED),
                ivOf \in [credentials -> Ivs],
                order \in Orders(credentials)}
           : password \in Passwords, dek \in Deks, salt \in Salts }

\* rotate(oldPassword, newPassword)'s functions; WrongPasswordError when the
\* old password does not unwrap the DEK.
rotateFns ==
    IF ~IsLocked THEN {}
    ELSE UNION {
           LET u == unlock(Meta, pw[1])
               args == [oldPassword |-> pw[1], newPassword |-> pw[2]]
           IN  IF ~u.ok THEN {Fn("rotate", args, <<>>, "wrong_password")}
               ELSE UNION {
                      {Fn("rotate", args, rotateStatements(Store, Meta, salt, wrapped), "none")
                         : wrapped \in encryptAesGcm(
                                          kek(pw[2], salt, DefaultKdfParamsJson),
                                          u.pt, UNDEFINED)}
                      : salt \in Salts }
           : pw \in Passwords \X Passwords }

\* db.exec('COMMIT'): what the connection wrote becomes the store.
Commit(store, view) == view

\* The catch clause without its ROLLBACK: what was written stays.
Rollback_Keep(store, view) == view

\* db.exec('ROLLBACK'): what the connection wrote is dropped.
Rollback(store, view) == store

\* What is left of an open transaction when its process dies: SQLite replays
\* committed transactions only.
Recover(store, view) == store

\* A connection that reads what an open transaction has written.
Visible_Uncommitted(store, t) == IF t.open THEN t.view ELSE store

\* What another connection reads while a transaction is open: the store as
\* last committed.
Visible(store, t) == store

\* How a tx call ended.
TxEnded(t, before, thrown, error) ==
    [op |-> "tx", fn |-> t.fn, args |-> t.args, done |-> t.done,
     statements |-> t.statements, before |-> before,
     others |-> t.others, thrown |-> thrown, error |-> error]

\* The store set to a value.
Becomes(store) ==
    /\ accounts' = store.accounts
    /\ credentials' = store.credentials
    /\ encryption_meta' = store.encryption_meta

\* tx: db.exec('BEGIN IMMEDIATE'), then fn is called.
TxBegin ==
    /\ last = Idle
    /\ txn = NoTx
    /\ \E fn \in migrateFns \cup lockFns \cup rotateFns :
         txn' = [open |-> TRUE, fn |-> fn.name, args |-> fn.args,
                 statements |-> fn.statements, rejects |-> fn.rejects,
                 done |-> 0, view |-> Store, others |-> <<>>]
    /\ UNCHANGED <<accounts, credentials, encryption_meta, last>>

\* fn's next statement runs, on the connection's own view.
TxRun ==
    /\ txn.open
    /\ txn.done < Len(txn.statements)
    /\ txn' = [txn EXCEPT !.done = @ + 1,
                          !.view = run(@, txn.statements[txn.done + 1])]
    /\ UNCHANGED <<accounts, credentials, encryption_meta, last>>

\* fn rejects, with its own error after its statements or with a step's
\* failure anywhere: catch (e) { ROLLBACK; throw e }.
TxReject ==
    /\ txn.open
    /\ \E e \in ({"step_failed"}
                   \cup (IF txn.done = Len(txn.statements) THEN {txn.rejects} ELSE {}))
                  \ {"none"} :
         last' = TxEnded(txn, Store, e, e)
    /\ Becomes(Rollback(Store, txn.view))
    /\ txn' = NoTx

\* fn resolved: db.exec('COMMIT') and the result is returned, or COMMIT throws
\* and the catch clause rolls back.
TxCommit ==
    /\ txn.open
    /\ txn.done = Len(txn.statements)
    /\ txn.rejects = "none"
    /\ \/ /\ Becomes(Commit(Store, txn.view))
          /\ last' = TxEnded(txn, Store, "none", "none")
       \/ /\ Becomes(Rollback(Store, txn.view))
          /\ last' = TxEnded(txn, Store, "commit_failed", "commit_failed")
    /\ txn' = NoTx

\* The process dies with its transaction open.
Crash ==
    /\ txn.open
    /\ Becomes(Recover(Store, txn.view))
    /\ last' = [op |-> "crash", fn |-> txn.fn, args |-> txn.args, done |-> txn.done,
                statements |-> txn.statements, before |-> Store]
    /\ txn' = NoTx

\* Another process reads the key-material row and the credentials.
Observe ==
    /\ last = Idle
    /\ LET seen == Visible(Store, txn)
       IN  last' = [op |-> "read", encryption_meta |-> seen.encryption_meta,
                    credentials |-> seen.credentials]
    /\ UNCHANGED <<accounts, credentials, encryption_meta, txn>>

\* unlock(password) on a Locked store: the DEK, or WrongPasswordError. Nothing
\* is written.
Unlock ==
    /\ last = Idle
    /\ IsLocked
    /\ \E password \in Passwords :
         LET u == unlock(Meta, password)
         IN  last' = [op |-> "unlock", password |-> password, ok |-> u.ok,
                      dek |-> u.pt,
                      error |-> IF u.ok THEN "none" ELSE "wrong_password",
                      before |-> Store]
    /\ UNCHANGED <<accounts, credentials, encryption_meta, txn>>

NextTx ==
    \/ TxBegin
    \/ TxRun
    \/ TxReject
    \/ TxCommit
    \/ Crash
    \/ Observe
    \/ Unlock
    \/ Link
    \/ Remove
    \/ Return

SpecTx == Init /\ [][NextTx]_vars

-----------------------------------------------------------------------------
(* Claims about transactions *)

\* C11: while a transaction is open the store stays as it was when the
\* transaction began; when tx ends because fn rejected, a step failed or
\* COMMIT failed, the store is still as it was and tx throws the error that
\* was thrown to it; when fn resolved and COMMIT succeeded, the store holds
\* every statement of fn; and when the process dies with the transaction open
\* the store is as it was. No end leaves only some of fn's statements.
C11_TxAllOrNothing ==
    [][ /\ (txn.open /\ txn'.open) => Store' = Store
        /\ (txn.open /\ ~txn'.open) =>
              /\ last'.op \in {"tx", "crash"}
              /\ last'.op = "crash" => Store' = Store
              /\ (last'.op = "tx" /\ last'.thrown # "none") =>
                    Store' = Store /\ last'.error = last'.thrown
              /\ (last'.op = "tx" /\ last'.thrown = "none") =>
                    /\ last'.error = "none"
                    /\ txn.rejects = "none"
                    /\ Store' = runAll(Store, txn.statements)
              /\ Store' \in {Store, runAll(Store, txn.statements)}
      ]_vars

\* A lock over two credentials was rolled back after the key-material row and
\* one credential had been written.
C11_Witness ==
    /\ last.op = "tx" /\ last.fn = "lock"
    /\ last.error = "step_failed"
    /\ Len(last.statements) = 3 /\ last.done = 2
    /\ Store = last.before

\* The key-material row and the credentials agree: Unlocked with no wrapped
\* DEK and plaintext credentials, or Locked with a wrapped DEK and encrypted
\* credentials.
Whole(meta, creds) ==
    \A m \in meta :
        \/ m.is_locked = 0 /\ NoWrappedDek(m) /\ \A c \in creds : PlaintextForm(c)
        \/ m.is_locked = 1 /\ WrappedDekStored(m) /\ \A c \in creds : EncryptedForm(c)

\* Every credential of before, encrypted, under a key-material row set Locked.
LockedFrom(before, after) ==
    /\ \A m \in after.encryption_meta : m.is_locked = 1 /\ WrappedDekStored(m)
    /\ after.accounts = before.accounts
    /\ {c.account_id : c \in after.credentials} = {c.account_id : c \in before.credentials}
    /\ \A c \in after.credentials : EncryptedForm(c)

\* C18: at every moment, while lock runs, after it ended by success or
\* failure and after a crash, the stored key-material row and credentials
\* agree; what another process reads agrees too; and once lock has ended or
\* crashed the store is the one lock found or the one with the row Locked
\* and every credential encrypted.
C18_LockAtomic ==
    /\ Whole(encryption_meta, credentials)
    /\ last.op = "read" => Whole(last.encryption_meta, last.credentials)
    /\ (last.op \in {"tx", "crash"} /\ last.fn = "lock") =>
          \/ Store = last.before
          \/ /\ last.op = "tx" /\ last.error = "none"
             /\ \A m \in last.before.encryption_meta : m.is_locked = 0
             /\ LockedFrom(last.before, Store)

\* Another process read the store while lock had written the key-material row
\* and one of two credentials.
C18_Witness ==
    /\ last.op = "read"
    /\ txn.open /\ txn.fn = "lock"
    /\ Len(txn.statements) = 3 /\ txn.done = 2
    /\ \E c \in txn.view.credentials : EncryptedForm(c)
    /\ \E c \in txn.view.credentials : PlaintextForm(c)

-----------------------------------------------------------------------------
(* Claims about migrate *)

\* The key-material row as the first bootstrap writes it.
FreshKeyMaterial(m) ==
    /\ m.id = 1 /\ m.is_locked = 0
    /\ m.kdf_salt = NULL /\ m.kdf_params_json = NULL
    /\ NoWrappedDek(m)

\* C12: the store never holds more than one key-material row, its id is 1,
\* and after a migrate call it holds exactly one; a migrate call on a store
\* without the row writes it Unlocked with no salt, no KDF parameters and no
\* wrapped DEK, a migrate call on a store with the row leaves the row as it
\* was, and every migrate call leaves the accounts and credentials as they were.
C12_KeyMaterialSingleton ==
    /\ [](/\ Cardinality(encryption_meta) <= 1
          /\ \A m \in encryption_meta : m.id = 1
          /\ last.op = "migrate" => Cardinality(encryption_meta) = 1)
    /\ [][last'.op = "migrate" =>
             /\ encryption_meta = {} =>
                   \E m \in encryption_meta' :
                       encryption_meta' = {m} /\ FreshKeyMaterial(m)
             /\ encryption_meta # {} => encryption_meta' = encryption_meta
             /\ accounts' = accounts
             /\ credentials' = credentials
       ]_vars

\* migrate ran again on a Locked store holding two encrypted credentials.
C12_Witness ==
    /\ last.op = "migrate"
    /\ IsLocked
    /\ Cardinality(credentials) = 2

-----------------------------------------------------------------------------
(* deriveKek over passwords, salts, parameters and Node releases *)

\* The parameters callers pass: N a power of two or not, small or large
\* blocks, and parallelism small, large and very large.
KdfParamSets ==
    [N : {2, 3, 16384, 131072}, r : {1, 8}, p : {1, 65536, 300000}, dkLen : {32}]

\* A call of deriveKek.
DeriveKek ==
    /\ last = Idle
    /\ \E password \in Passwords, salt \in Salts, params \in KdfParamSets, node \in Nodes :
         LET d == deriveKek(password, salt, params, node)
         IN  last' = [op |-> "deriveKek", password |-> password, salt |-> salt,
                      params |-> params, node |-> node,
                      attempts |-> d.attempts, ok |-> d.result.ok,
                      key |-> d.result.key, error |-> d.result.error]
    /\ UNCHANGED <<accounts, credentials, encryption_meta, txn>>

NextKdf == DeriveKek \/ Return

SpecKdf == Init /\ [][NextKdf]_vars

\* C13: with E = 128*N*r and F = 64 MiB, deriveKek's first attempt runs under
\* the ceiling max(F, 2E) and its second, when there is one, under
\* max(4F, 8E), which is above the first; there are at most two attempts and
\* each runs with the password, salt, N, r, p and key length of the call.
C13_CeilingPolicy ==
    last.op = "deriveKek" =>
       LET E == 128 * last.params.N * last.params.r
           F == 64 * 1024 * 1024
           firstCeiling == IF F >= 2 * E THEN F ELSE 2 * E
           retryCeiling == IF 4 * F >= 8 * E THEN 4 * F ELSE 8 * E
           a == last.attempts
           AsCalled(i) ==
               /\ a[i].password = last.password /\ a[i].salt = last.salt
               /\ a[i].N = last.params.N /\ a[i].r = last.params.r
               /\ a[i].p = last.params.p /\ a[i].dkLen = last.params.dkLen
       IN  /\ Len(a) \in {1, 2}
           /\ a[1].maxmem = firstCeiling /\ AsCalled(1)
           /\ Len(a) = 2 => a[2].maxmem = retryCeiling /\ AsCalled(2)
           /\ retryCeiling > firstCeiling

\* A second attempt ran under 8E, above a first ceiling of 2E.
C13_Witness ==
    /\ last.op = "deriveKek"
    /\ Len(last.attempts) = 2
    /\ last.attempts[1].maxmem = 256 * last.params.N * last.params.r
    /\ last.attempts[2].maxmem = 1024 * last.params.N * last.params.r

\* The memory the call needs: 128*r*(N + p + 2).
Needs(params) == 128 * params.r * (params.N + params.p + 2)

\* C14: a deriveKek call with parameters scrypt accepts, whose memory need is
\* above the first ceiling and not above the second, makes two attempts and
\* returns the key of the second, which is the key scrypt computes for the
\* same password, salt and parameters under a ceiling of exactly the need.
C14_RetrySucceeds ==
    (/\ last.op = "deriveKek"
     /\ PowerOfTwo(last.params.N)
     /\ Needs(last.params) > last.attempts[1].maxmem
     /\ Needs(last.params) <=
           (IF 4 * 64 * 1024 * 1024 >= 1024 * last.params.N * last.params.r
            THEN 4 * 64 * 1024 * 1024 ELSE 1024 * last.params.N * last.params.r))
    => /\ last.ok
       /\ Len(last.attempts) = 2
       /\ last.key = last.attempts[2].result.key
       /\ last.key = scrypt(last.password, last.salt, last.params.dkLen,
                            [N |-> last.params.N, r |-> last.params.r,
                             p |-> last.params.p, maxmem |-> Needs(last.params)],
                            last.node).key
       /\ last.key # UNDEFINED

\* Under Node 18 a call needing more than 64 MiB and less than 256 MiB
\* returned its key from the second attempt.
C14_Witness ==
    /\ last.op = "deriveKek"
    /\ last.node = "node18"
    /\ Needs(last.params) > 64 * 1024 * 1024
    /\ Needs(last.params) > 256 * last.params.N * last.params.r
    /\ Len(last.attempts) = 2
    /\ last.ok

\* The parameters are ones scrypt computes a key for when memory allows: N a
\* power of two above 1 and below 2^(16*r).
ValidKdfParams(params) ==
    /\ params.N \in {2, 4, 8, 16, 16384, 32768, 65536, 131072}
    /\ (params.r = 1 => params.N < 65536)

\* The first attempt failed because its memory ceiling was exceeded: the
\* parameters are valid and the call needs more than the ceiling allowed.
CeilingExceeded(call) ==
    /\ ~call.attempts[1].result.ok
    /\ ValidKdfParams(call.params)
    /\ Needs(call.params) > call.attempts[1].maxmem

\* C21: deriveKek makes at most two attempts, and the second only when the
\* first failed because the memory ceiling was exceeded; a first attempt that
\* fails for another reason ends the call with that attempt's error, and a
\* failed second attempt ends the call with its error.
C21_RetryOnlyOnCeiling ==
    last.op = "deriveKek" =>
       LET a == last.attempts
       IN  /\ Len(a) \in {1, 2}
           /\ Len(a) = 2 => CeilingExceeded(last)
           /\ (~a[1].result.ok /\ ~CeilingExceeded(last))
                  => /\ Len(a) = 1
                     /\ ~last.ok
                     /\ last.error = a[1].result.error
           /\ (Len(a) = 2 /\ ~a[2].result.ok)
                  => /\ ~last.ok
                     /\ last.error = a[2].result.error

\* The parts of C21 that hold on every Node release: at most two attempts, a
\* second only after a failed first, and the error thrown is the error of the
\* last attempt made.
AttemptsBounded ==
    last.op = "deriveKek" =>
       LET a == last.attempts
       IN  /\ Len(a) \in {1, 2}
           /\ Len(a) = 2 => ~a[1].result.ok
           /\ last.ok = a[Len(a)].result.ok
           /\ last.error = a[Len(a)].result.error

\* Under Node 15 and later, with N in the range its block size admits, the
\* second attempt is made only after a ceiling-exceeded failure.
RetryOnlyOnCeilingInRange ==
    (/\ last.op = "deriveKek"
     /\ last.node = "node18"
     /\ (last.params.r = 1 => last.params.N < 65536))
    => (Len(last.attempts) = 2 => CeilingExceeded(last))

\* A call retried although its parameters are ones scrypt never accepts.
RetriedInvalidParams ==
    /\ last.op = "deriveKek"
    /\ Len(last.attempts) = 2
    /\ ~ValidKdfParams(last.params)

-----------------------------------------------------------------------------
(* Claims about lock, unlock and rotate *)

\* The key-material row of a store value.
MetaOf(store) == CHOOSE m \in store.encryption_meta : m.id = 1

\* getUsableSecret(accountId, dek): the credential read of getCalendarClient.
UsableSecret(creds, dek, accountId) ==
    getCalendarClient(creds, [dek |-> dek, readOnly |-> FALSE], accountId)

\* C19: when rotate(old, new) has succeeded, unlock(new) yields the DEK that
\* unlock(old) yielded before, every credential row is as it was and decrypts
\* under that DEK to what it did before, and unlock(old) fails unless old is
\* new; when rotate has failed, by a wrong old password or at any step, the
\* key-material row and the credentials are as they were and unlock answers
\* every password as before.
C19_RotationPreservesData ==
    (last.op = "tx" /\ last.fn = "rotate") =>
       LET was == MetaOf(last.before)
           oldPassword == last.args.oldPassword
           newPassword == last.args.newPassword
       IN  /\ credentials = last.before.credentials
           /\ accounts = last.before.accounts
           /\ last.error = "none" =>
                 /\ unlock(was, oldPassword).ok
                 /\ unlock(Meta, newPassword).ok
                 /\ unlock(Meta, newPassword).pt = unlock(was, oldPassword).pt
                 /\ \A c \in credentials :
                       /\ UsableSecret(credentials, unlock(Meta, newPassword).pt,
                                       c.account_id).outcome = "client"
                       /\ UsableSecret(credentials, unlock(Meta, newPassword).pt,
                                       c.account_id)
                            = UsableSecret(last.before.credentials,
                                           unlock(was, oldPassword).pt, c.account_id)
                 /\ oldPassword # newPassword => ~unlock(Meta, oldPassword).ok
           /\ last.error # "none" =>
                 /\ encryption_meta = last.before.encryption_meta
                 /\ \A pw \in Passwords : unlock(Meta, pw) = unlock(was, pw)
                 /\ \E pw \in Passwords : unlock(Meta, pw).ok

\* A store with two encrypted credentials was rotated to another password.
C19_Witness ==
    /\ last.op = "tx" /\ last.fn = "rotate"
    /\ last.error = "none"
    /\ last.args.oldPassword # last.args.newPassword
    /\ Cardinality(credentials) = 2
    /\ encryption_meta # last.before.encryption_meta

\* C20: when lock(password) has succeeded, unlock(password) yields a DEK with
\* which the credential read of every account that held a plaintext secret
\* returns exactly that secret; the read without a DEK ends database-locked;
\* unlock with another password fails; and no unlock call changes the store.
C20_LockThenUnlock ==
    /\ (last.op = "tx" /\ last.fn = "lock" /\ last.error = "none") =>
          LET u == unlock(Meta, last.args.password)
          IN  /\ u.ok
              /\ \A c \in last.before.credentials :
                    /\ UsableSecret(credentials, u.pt, c.account_id).outcome = "client"
                    /\ UsableSecret(credentials, u.pt, c.account_id).refresh_token
                         = c.refresh_token
                    /\ UsableSecret(credentials, UNDEFINED, c.account_id).outcome
                         = "database_locked"
              /\ \A pw \in Passwords \ {last.args.password} : ~unlock(Meta, pw).ok
    /\ last.op = "unlock" =>
          /\ Store = last.before
          /\ ~last.ok => last.error = "wrong_password" /\ last.dek = UNDEFINED

\* Two accounts with plaintext secrets, one of them two bytes long, were locked.
C20_Witness ==
    /\ last.op = "tx" /\ last.fn = "lock" /\ last.error = "none"
    /\ Cardinality(last.before.credentials) = 2
    /\ \E c \in last.before.credentials : Len(c.refresh_token) = 2
    /\ \A c \in credentials : EncryptedForm(c)

-----------------------------------------------------------------------------
(* Two asynchronous callers on one connection *)

\* The statements the other caller runs while a transaction is open, at most.
MaxOthers == 1

\* The statements the other caller issues through run: a credential written
\* in plaintext for a linked account of an Unlocked store.
OtherStatements ==
    IF encryption_meta = {} \/ IsLocked THEN {}
    ELSE {Statement("credentials", PlainRow(acc.id, secret))
             : acc \in accounts, secret \in Secrets}

\* run(db, sql, params) by the other caller: db.prepare(sql).run(...params)
\* on the shared connection. With no transaction open the statement commits
\* on its own; with one open it executes inside it.
OtherRun ==
    /\ last = Idle
    /\ \E stmt \in OtherStatements :
         /\ IF txn.open
            THEN /\ Len(txn.others) < MaxOthers
                 /\ txn' = [txn EXCEPT !.view = run(@, stmt),
                                       !.others = Append(@, stmt)]
                 /\ UNCHANGED <<accounts, credentials, encryption_meta>>
            ELSE /\ Becomes(run(Store, stmt))
                 /\ UNCHANGED txn
         /\ last' = [op |-> "run", stmt |-> stmt, inTx |-> txn.open,
                     before |-> Store, error |-> "none"]

\* tx(db, fn) by the other caller while a transaction is open:
\* db.exec('BEGIN IMMEDIATE') throws before the try block is entered, so fn
\* is not called and no ROLLBACK is issued.
OtherTx ==
    /\ last = Idle
    /\ txn.open
    /\ last' = [op |-> "tx", fn |-> "other", done |-> 0, before |-> Store,
                thrown |-> "cannot_begin", error |-> "cannot_begin"]
    /\ UNCHANGED <<accounts, credentials, encryption_meta, txn>>

NextShared ==
    \/ TxBegin
    \/ TxRun
    \/ TxReject
    \/ TxCommit
    \/ OtherRun
    \/ OtherTx
    \/ Link
    \/ Remove
    \/ Return

SpecShared == Init /\ [][NextShared]_vars

\* C22: on a shared connection a statement the other caller runs takes
\* effect on its own, whether or not a transaction is open; a tx call that
\* rolls back leaves the store as it was before with the other caller's
\* statements applied, so only its own function's writes are undone; and a
\* second tx call that cannot begin leaves the open transaction and the store
\* as they are.
C22_SharedConnectionIsolation ==
    [][ /\ (last'.op = "run" /\ last' # last) =>
              Store' = run(Store, last'.stmt)
        /\ (txn.open /\ ~txn'.open /\ last'.op = "tx" /\ last'.thrown # "none") =>
              Store' = runAll(Store, txn.others)
        /\ (last'.op = "tx" /\ last' # last /\ last'.error = "cannot_begin") =>
              txn' = txn /\ Store' = Store
      ]_vars

\* The part of C22 that holds: a second tx call that cannot begin throws and
\* leaves the open transaction, with what it has written, and the store
\* untouched.
SecondTxLeavesFirst ==
    [][ (last'.op = "tx" /\ last' # last /\ last'.error = "cannot_begin") =>
           /\ txn' = txn /\ txn'.open
           /\ Store' = Store
      ]_vars

\* With one caller, no statement by another, a rollback restores the store.
RollbackAlone ==
    [][ (txn.open /\ ~txn'.open /\ last'.op = "tx" /\ last'.thrown # "none"
         /\ txn.others = <<>>) => Store' = Store
      ]_vars

\* A tx call rolled back, and the credential the other caller wrote while it
\* was open, and whose run had resolved, is gone with it.
OtherWriteRolledBack ==
    /\ last.op = "tx" /\ last.fn # "other"
    /\ last.thrown # "none"
    /\ last.others # <<>>
    /\ Store = last.before
    /\ Store # runAll(last.before, last.others)

\* A tx call committed, and the credential the other caller wrote while it
\* was open entered the store with that commit.
OtherWriteCommittedWithTx ==
    /\ last.op = "tx" /\ last.fn # "other"
    /\ last.thrown = "none"
    /\ \E i \in DOMAIN last.others :
          /\ last.others[i].row \in credentials
          /\ last.others[i].row \notin last.before.credentials

-----------------------------------------------------------------------------
(* Claims about the result of gcal-resolve_account *)

\* C23: every result of gcal-resolve_account has count the number of its
\* matches; exact implies one match and not ambiguous; without exact,
\* ambiguous holds precisely when there is more than one match; every match
\* is a stored account; and query is the input with its leading and trailing
\* white space dropped (empty when there is no input).
C23_ResultConsistent ==
    (last.op = "gcal-resolve_account" /\ last.ok)
    => /\ last.count = Len(last.matches)
       /\ last.exact => (last.count = 1 /\ ~last.ambiguous)
       /\ ~last.exact => (last.ambiguous <=> last.count > 1)
       /\ \A i \in 1..Len(last.matches) :
             \E r \in accounts :
                /\ last.matches[i].id = r.id
                /\ last.matches[i].email = r.email
                /\ last.matches[i].displayName = r.display_name
       /\ last.query = (IF last.args.query.type = "string"
                        THEN Stripped(last.args.query.value) ELSE <<>>)

\* A query with white space around it returned one match that is not exact.
C23_Witness ==
    /\ TextQuery /\ last.ok
    /\ last.query # last.args.query.value /\ last.query # <<>>
    /\ ~last.exact /\ last.count = 1 /\ ~last.ambiguous

\* Results of each kind occur: exact, one match that is not exact, several
\* matches, none.
ExactResult == TextQuery /\ last.ok /\ last.exact
AmbiguousResult == TextQuery /\ last.ok /\ last.ambiguous /\ last.count >= 2
EmptyResult == TextQuery /\ last.ok /\ last.count = 0 /\ last.query # <<>>

====
